---- MODULE Spec2Model ----
(***************************************************************************)
(* A model of kmodules/prober: the probe dispatcher (Prober.RunProbe), the *)
(* port resolver (extractPort, findPortByName), the shared HTTP probe      *)
(* executor (doHTTPProbe: header policy, body budget, classification), the *)
(* POST request builder (DoHTTPPostProbe), the client's timeout and the    *)
(* redirect policy (redirectChecker).                                      *)
(*                                                                         *)
(* Strings that the code parses (port names) are sequences of one-letter   *)
(* strings; a nil pointer is the empty sequence and a pointer to x is <<x>>.*)
(***************************************************************************)
EXTENDS Integers, Sequences, FiniteSets, TLC

VARIABLES
    pc,                       \* "idle", "do" (inside client.Do), "done", "panic"
    entry,                    \* the call under way: "RunProbe", "HttpGet.Probe", "HttpPost.Probe"
    followNonLocalRedirects,  \* the flag the HTTP probers were built with
    p,                        \* RunProbe's handler (*api_v1.Handler, dereferenced)
    pod,                      \* RunProbe's pod: Nil or <<pod>>
    status,                   \* RunProbe's status (core.PodStatus)
    container,                \* RunProbe's container (core.Container)
    timeout,                  \* the timeout the caller gave, in seconds
    args,                     \* the headers, form and body given to Probe when it is the entry
    extracted,                \* Nil or <<[port, err]>>: what extractPort returned to RunProbe
    calls,                    \* the probers called so far, with their arguments
    req,                      \* the request client.Do is about to send
    via,                      \* the requests client.Do has sent (net/http's reqs)
    res,                      \* Nil or <<the last response received>>
    doErr,                    \* the error client.Do returned
    readErr,                  \* the error ReadAtMost returned
    client,                   \* Nil or <<the http.Client Probe built>>
    other,                    \* Nil or <<the state of a second call running on the same prober>>
    built,                    \* Nil or <<the URL formatURL returned to a direct caller>>
    handed,                   \* the header map given to doHTTPProbe, as its caller sees it
    dialed,                   \* Nil or <<the error the TCP prober's dial returned>>
    clock,                    \* the seconds spent so far inside client.Do
    result,                   \* the Result returned
    output,                   \* the text returned
    err                       \* the error returned

vars == <<pc, entry, followNonLocalRedirects, p, pod, status, container, timeout, args,
          extracted, calls, req, via, res, doErr, readErr, client, handed, dialed, built, clock,
          result, output, err, other>>

(***************************************************************************)
(* Bounds of the model.                                                    *)
(***************************************************************************)
\* the longest list of declared ports of a container
MaxContainerPorts == 2
\* the byte budget of a response body (maxRespBodyLength), scaled down: the
\* bodies drawn are one byte under it, exactly it and one byte over it
maxRespBodyLength == 2
\* the longest time, in seconds, the model lets a request wait
MaxClock == 3
MaxPathLen == 4

(***************************************************************************)
(* Values.                                                                 *)
(***************************************************************************)
Nil == <<>>
Ptr(x) == <<x>>
Deref(x) == x[1]

Unknown == "unknown"
Success == "success"
Failure == "failure"
Warning == "warning"

\* An error value: its kind, and the number and the text its message carries.
Error(kind, num, str) == [kind |-> kind, num |-> num, str |-> str]
NoErr == Error("nil", 0, <<>>)

DigitChars == <<"0", "1", "2", "3", "4", "5", "6", "7", "8", "9">>
IsDigit(c) == \E i \in 1..10 : DigitChars[i] = c
DigitVal(c) == (CHOOSE i \in 1..10 : DigitChars[i] = c) - 1

RECURSIVE ParseDigits(_, _)
\* the digit loop of strconv.Atoi: n = n*10 + digit, a syntax error on a non-digit
ParseDigits(s, n) ==
    IF s = <<>> THEN [port |-> n, err |-> NoErr]
    ELSE IF ~IsDigit(Head(s)) THEN [port |-> 0, err |-> Error("Syntax", 0, <<>>)]
    ELSE ParseDigits(Tail(s), n * 10 + DigitVal(Head(s)))

\* strconv.Atoi: an optional sign, then one or more decimal digits
Atoi(s) ==
    LET syntax == [port |-> 0, err |-> Error("Syntax", 0, s)]
        body   == IF s # <<>> /\ Head(s) \in {"-", "+"} THEN Tail(s) ELSE s
        parsed == ParseDigits(body, 0)
    IN  IF s = <<>> \/ body = <<>> THEN syntax
        ELSE IF parsed.err # NoErr THEN syntax
        ELSE IF Head(s) = "-" THEN [port |-> 0 - parsed.port, err |-> NoErr]
        ELSE parsed

RECURSIVE findLastPortByNameFrom(_, _, _)
\* findPortByNameFrom scanning from the end: the last port of the name wins
findLastPortByNameFrom(ports, portName, i) ==
    LET k == Len(ports) + 1 - i
    IN  IF i > Len(ports) THEN [port |-> 0, err |-> Error("PortNotFound", 0, portName)]
        ELSE IF ports[k].Name = portName
             THEN [port |-> ports[k].ContainerPort, err |-> NoErr]
             ELSE findLastPortByNameFrom(ports, portName, i + 1)

RECURSIVE findPortByNameFrom(_, _, _)
findPortByNameFrom(ports, portName, i) ==
    IF i > Len(ports) THEN [port |-> 0, err |-> Error("PortNotFound", 0, portName)]
    ELSE IF ports[i].Name = portName
         THEN [port |-> ports[i].ContainerPort, err |-> NoErr]
         ELSE findPortByNameFrom(ports, portName, i + 1)

\* findPortByName looks a port up in a container by name, in declaration order.
findPortByName(cont, portName) == findPortByNameFrom(cont.Ports, portName, 1)

MaxPort == 65536

\* validPort with the upper bound included
validPortInclusive(port) == port > 0 /\ port <= MaxPort

\* the range check that ends extractPort
validPort(port) == port > 0 /\ port < MaxPort

extractPort(param, cont) ==
    LET check(port) == IF validPort(port)
                       THEN [port |-> port, err |-> NoErr]
                       ELSE [port |-> port, err |-> Error("InvalidPort", port, <<>>)]
    IN  CASE param.Type = "Int" -> check(param.IntVal)
          [] param.Type = "String" ->
                LET byName == findPortByName(cont, param.StrVal)
                    asInt  == Atoi(param.StrVal)
                IN  IF byName.err = NoErr THEN check(byName.port)
                    ELSE IF asInt.err # NoErr THEN asInt
                    ELSE check(asInt.port)
          [] OTHER -> [port |-> -1, err |-> Error("NoKind", 0, <<>>)]

(***************************************************************************)
(* Text.                                                                   *)
(***************************************************************************)
RECURSIVE Digits(_)
Digits(n) == IF n < 10 THEN <<DigitChars[n + 1]>>
             ELSE Append(Digits(n \div 10), DigitChars[(n % 10) + 1])

\* the decimal text of an integer (%d, strconv.Itoa)
Itoa(n) == IF n < 0 THEN <<"-">> \o Digits(0 - n) ELSE Digits(n)

\* podDesc: "<name>_<namespace>(<uid>)"
podDesc(podName, podNamespace, podUID) == <<podName, "_", podNamespace, "(", podUID, ")">>

\* formatPod reads the fields of the pod it is given: the caller must hold a pod
formatPod(somePod) == podDesc(somePod.Name, somePod.Namespace, somePod.UID)

(***************************************************************************)
(* URLs. The text of a path or of a URL is a sequence of tokens: the       *)
(* delimiters "/", "?", "#" and ":", the characters "%" (one that starts   *)
(* no valid escape) and " ", the escape "%20", and words of letters. No    *)
(* token is "@", so no URL here has user information.                      *)
(***************************************************************************)
NonLetters == {"/", "?", "#", ":", "%", " ", "%20"}

\* strings.Index and strings.LastIndex, counted from 1; 0 when absent
Index(s, c) ==
    IF \E i \in DOMAIN s : s[i] = c
    THEN CHOOSE i \in DOMAIN s : s[i] = c /\ \A j \in 1..(i - 1) : s[j] # c
    ELSE 0
LastIndex(s, c) ==
    IF \E i \in DOMAIN s : s[i] = c
    THEN CHOOSE i \in DOMAIN s : s[i] = c /\ \A j \in (i + 1)..Len(s) : s[j] # c
    ELSE 0
Count(s, c) == Cardinality({ i \in DOMAIN s : s[i] = c })
HasPrefix(s, prefix) == Len(s) >= Len(prefix) /\ SubSeq(s, 1, Len(prefix)) = prefix
HasSuffix(s, suffix) ==
    Len(s) >= Len(suffix) /\ SubSeq(s, Len(s) - Len(suffix) + 1, Len(s)) = suffix

\* net/url split: s cut at the first c, which goes with neither part (cutc) or
\* with the second
split(s, c, cutc) ==
    LET i == Index(s, c)
    IN  IF i = 0 THEN <<s, <<>>>>
        ELSE <<SubSeq(s, 1, i - 1), SubSeq(s, IF cutc THEN i + 1 ELSE i, Len(s))>>

\* net/url getscheme: letters up to a colon are a scheme; a colon that comes
\* first is an error; anything else before a colon means there is no scheme
getscheme(rawurl) ==
    LET stops == { i \in DOMAIN rawurl : rawurl[i] \in NonLetters }
        i     == IF stops = {} THEN 0 ELSE CHOOSE k \in stops : \A j \in stops : k <= j
    IN  IF i = 0 \/ rawurl[i] # ":"
        THEN [scheme |-> <<>>, rest |-> rawurl, err |-> NoErr]
        ELSE IF i = 1
        THEN [scheme |-> <<>>, rest |-> <<>>,
              err |-> Error("Parse", 0, <<"missing protocol scheme">>)]
        ELSE [scheme |-> SubSeq(rawurl, 1, i - 1), rest |-> SubSeq(rawurl, i + 1, Len(rawurl)),
              err |-> NoErr]

\* net/url unescape: "%20" stands for a space and a "%" that starts no escape
\* is an error; a host allows neither an escape below %80 nor a space
unescape(s, mode) ==
    [str |-> [i \in DOMAIN s |-> IF s[i] = "%20" THEN " " ELSE s[i]],
     err |-> IF \E i \in DOMAIN s : s[i] = "%"
             THEN Error("Parse", 0, <<"invalid URL escape">>)
             ELSE IF mode = "host" /\ (\E i \in DOMAIN s : s[i] = "%20")
             THEN Error("Parse", 0, <<"invalid URL escape">>)
             ELSE IF mode = "host" /\ (\E i \in DOMAIN s : s[i] = " ")
             THEN Error("Parse", 0, <<"invalid character in host name">>)
             ELSE NoErr]

\* net/url shouldEscape: what a path or a fragment cannot hold as it is
shouldEscape(c, mode) ==
    \/ c \in {"%", " ", "#", "%20"}
    \/ c = "?" /\ mode = "path"

\* net/url escape: the percent-encoding of a text
escape(s, mode) ==
    [i \in DOMAIN s |->
        IF ~shouldEscape(s[i], mode) THEN s[i]
        ELSE CASE s[i] = " "   -> "%20"
               [] s[i] = "%"   -> "%25"
               [] s[i] = "#"   -> "%23"
               [] s[i] = "?"   -> "%3F"
               [] s[i] = "%20" -> "%2520"]

\* net/url validEncodedPath: the text can stand in a URL as it is
validEncodedPath(s) == \A i \in DOMAIN s : s[i] \notin {" ", "#", "?"}

\* net/url validOptionalPort: nothing, or a colon and digits
validOptionalPort(port) ==
    port = <<>> \/ (port[1] = ":" /\ \A i \in 2..Len(port) : IsDigit(port[i]))

\* net/url parseAuthority and parseHost, for an authority without user
\* information or brackets
parseAuthority(authority) ==
    LET i == LastIndex(authority, ":")
    IN  IF i # 0 /\ ~validOptionalPort(SubSeq(authority, i, Len(authority)))
        THEN [host |-> <<>>, err |-> Error("Parse", 0, <<"invalid port">>)]
        ELSE [host |-> unescape(authority, "host").str,
              err |-> unescape(authority, "host").err]

\* a URL with nothing set, and what url.Parse hands back on an error
NoURL ==
    [Scheme |-> <<>>, Opaque |-> <<>>, Host |-> <<>>, Path |-> <<>>, RawPath |-> <<>>,
     ForceQuery |-> FALSE, RawQuery |-> <<>>, Fragment |-> <<>>]
parseError(e) == [url |-> NoURL, err |-> e]

\* net/url parse(rawurl, false), from the authority on: rest is the text after
\* the scheme and before the query, u holds what has been read so far
parsePath(u, rest, auth, tail) ==
    LET colon == Index(rest, ":")
        slash == Index(rest, "/")
        un    == unescape(tail, "path")
    IN  IF ~HasPrefix(rest, <<"/">>) /\ u.Scheme # <<>>
        THEN [url |-> [u EXCEPT !.Opaque = rest], err |-> NoErr]
        ELSE IF ~HasPrefix(rest, <<"/">>) /\ colon > 0 /\ (slash = 0 \/ colon < slash)
        THEN parseError(Error("Parse", 0, <<"first path segment in URL cannot contain colon">>))
        ELSE IF auth.err # NoErr THEN parseError(auth.err)
        ELSE IF un.err # NoErr THEN parseError(un.err)
        ELSE [url |-> [u EXCEPT !.Host = auth.host, !.Path = un.str,
                                !.RawPath = IF escape(un.str, "path") = tail THEN <<>> ELSE tail],
              err |-> NoErr]

\* net/url parse(rawurl, false), from the query on: an authority follows "//",
\* the path is what follows the authority
parseRest(u, rest) ==
    LET hasAuthority == /\ HasPrefix(rest, <<"/", "/">>)
                        /\ (u.Scheme # <<>> \/ ~HasPrefix(rest, <<"/", "/", "/">>))
        cut == split(SubSeq(rest, 3, Len(rest)), "/", FALSE)
    IN  parsePath(u, rest,
                  IF hasAuthority THEN parseAuthority(cut[1])
                  ELSE [host |-> <<>>, err |-> NoErr],
                  IF hasAuthority THEN cut[2] ELSE rest)

\* net/url parse(rawurl, false), after getscheme: a lone trailing "?" forces an
\* empty query, any other "?" starts the query
parseScheme(gs) ==
    LET force == HasSuffix(gs.rest, <<"?">>) /\ Count(gs.rest, "?") = 1
        cut   == split(gs.rest, "?", TRUE)
    IN  IF gs.err # NoErr THEN parseError(gs.err)
        ELSE parseRest([NoURL EXCEPT !.Scheme = gs.scheme, !.ForceQuery = force,
                                     !.RawQuery = IF force THEN <<>> ELSE cut[2]],
                       IF force THEN SubSeq(gs.rest, 1, Len(gs.rest) - 1) ELSE cut[1])

\* net/url parse(rawurl, false): scheme, query, authority and path of a text
\* whose fragment has been cut off
parse(rawurl) == parseScheme(getscheme(rawurl))

\* url.Parse, once the fragment is cut off: head is the parsed text before
\* the "#", frag the unescaped fragment
parseFragment(head, frag) ==
    IF head.err # NoErr THEN head
    ELSE IF frag.err # NoErr THEN parseError(frag.err)
    ELSE [url |-> [head.url EXCEPT !.Fragment = frag.str], err |-> NoErr]

\* url.Parse: the fragment is cut off at the first "#" and unescaped
Parse(rawurl) ==
    LET cut == split(rawurl, "#", TRUE)
    IN  parseFragment(parse(cut[1]), unescape(cut[2], "fragment"))

\* the hosts of the model that hold a colon (IPv6 literals)
ColonHosts == {"::1"}

\* net.JoinHostPort(host, strconv.Itoa(port)): a host that holds a colon goes
\* in brackets
JoinHostPort(host, port) ==
    IF host \in ColonHosts THEN <<"[", host, "]", ":">> \o Itoa(port)
    ELSE <<host, ":">> \o Itoa(port)

\* formatURL's two assignments: u.Scheme = scheme and u.Host =
\* net.JoinHostPort(host, strconv.Itoa(port)), the Host kept as its two parts
\* Hostname and Port
setSchemeHost(u, scheme, host, port) ==
    [Scheme |-> scheme, Opaque |-> u.Opaque, Hostname |-> host, Port |-> port,
     Path |-> u.Path, RawPath |-> u.RawPath, ForceQuery |-> u.ForceQuery,
     RawQuery |-> u.RawQuery, Fragment |-> u.Fragment]

\* formatURL's fallback: a path that does not parse is taken as the Path of an
\* empty URL
parsedOrPath(parsed, path) ==
    IF parsed.err # NoErr THEN [NoURL EXCEPT !.Path = path] ELSE parsed.url

\* formatURL going on with what url.Parse handed back when the path did not
\* parse
formatURLNoFallback(scheme, host, port, path) ==
    setSchemeHost(Parse(path).url, scheme, host, port)

\* formatURL: the path is parsed as a URL (or, when it does not parse, taken
\* as the Path of an empty URL), then the scheme and the host are set
formatURL(scheme, host, port, path) ==
    setSchemeHost(parsedOrPath(Parse(path), path), scheme, host, port)

\* URL.EscapedPath: RawPath when it is a valid encoding of Path, else the
\* escaping of Path
EscapedPath(u) ==
    IF /\ u.RawPath # <<>> /\ validEncodedPath(u.RawPath)
       /\ unescape(u.RawPath, "path").err = NoErr
       /\ unescape(u.RawPath, "path").str = u.Path
    THEN u.RawPath
    ELSE escape(u.Path, "path")

\* URL.String of a URL that formatURL built
String(u) ==
    LET host == JoinHostPort(u.Hostname, u.Port)
        path == EscapedPath(u)
    IN  (IF u.Scheme # "" THEN <<u.Scheme, ":">> ELSE <<>>)
        \o (IF u.Opaque # <<>> THEN u.Opaque
            ELSE <<"/", "/">> \o host
                 \o (IF path # <<>> /\ path[1] # "/" THEN <<"/">> ELSE <<>>)
                 \o path)
        \o (IF u.ForceQuery \/ u.RawQuery # <<>> THEN <<"?">> \o u.RawQuery ELSE <<>>)
        \o (IF u.Fragment # <<>> THEN <<"#">> \o escape(u.Fragment, "fragment") ELSE <<>>)

(***************************************************************************)
(* The HTTP probe: classification and redirect policy.                     *)
(***************************************************************************)
StatusOK == 200
StatusMultipleChoices == 300
StatusBadRequest == 400

\* redirectChecker's limit on the requests of one chain
MaxRedirects == 10

ErrUseLastResponse == Error("ErrUseLastResponse", 0, <<>>)
ErrStopped == Error("Redirect", 0, <<"stopped after 10 redirects">>)
ErrLimitReached == Error("ErrLimitReached", 0, <<>>)
\* the error of client.Do when the client's Timeout expires before an answer
ErrTimeout == Error("Timeout", 0, <<"Client.Timeout exceeded while awaiting headers">>)

\* redirectChecker without the locality check: every redirect is followed
redirectCheckerNoLocality(follow, next, viaReqs) ==
    IF Len(viaReqs) >= MaxRedirects THEN ErrStopped ELSE NoErr

\* redirectChecker comparing host and port where it should compare hostnames
redirectCheckerByHostPort(follow, next, viaReqs) ==
    IF follow
    THEN IF Len(viaReqs) >= MaxRedirects THEN ErrStopped ELSE NoErr
    ELSE IF JoinHostPort(next.URL.Hostname, next.URL.Port)
              # JoinHostPort(viaReqs[1].URL.Hostname, viaReqs[1].URL.Port)
         THEN ErrUseLastResponse
         ELSE IF Len(viaReqs) >= MaxRedirects THEN ErrStopped
         ELSE NoErr

\* redirectChecker looking at the length of the chain before the hostname
redirectCheckerCapFirst(follow, next, viaReqs) ==
    IF Len(viaReqs) >= MaxRedirects THEN ErrStopped
    ELSE IF ~follow /\ next.URL.Hostname # viaReqs[1].URL.Hostname THEN ErrUseLastResponse
    ELSE NoErr

\* redirectChecker whose same-host policy has no cap on the chain
redirectCheckerLocalNoCap(follow, next, viaReqs) ==
    IF follow
    THEN IF Len(viaReqs) >= MaxRedirects THEN ErrStopped ELSE NoErr
    ELSE IF next.URL.Hostname # viaReqs[1].URL.Hostname THEN ErrUseLastResponse
         ELSE NoErr

\* redirectChecker whose follow-all policy has lost the cap on the chain
redirectCheckerNoCap(follow, next, viaReqs) ==
    IF follow
    THEN NoErr
    ELSE IF next.URL.Hostname # viaReqs[1].URL.Hostname THEN ErrUseLastResponse
         ELSE IF Len(viaReqs) >= MaxRedirects THEN ErrStopped
         ELSE NoErr

\* The CheckRedirect function of the client: the checker redirectChecker returns,
\* or, when it returns nil, net/http's default (stop after 10 requests).
redirectChecker(follow, next, viaReqs) ==
    IF follow
    THEN IF Len(viaReqs) >= MaxRedirects THEN ErrStopped ELSE NoErr
    ELSE IF next.URL.Hostname # viaReqs[1].URL.Hostname THEN ErrUseLastResponse
         ELSE IF Len(viaReqs) >= MaxRedirects THEN ErrStopped
         ELSE NoErr

\* classify with every code from 200 to 399 counted as a success
classifyRedirectAsSuccess(code, respBody) ==
    IF code >= StatusOK /\ code < StatusBadRequest
    THEN [result |-> Success, output |-> respBody, err |-> NoErr]
    ELSE [result |-> Failure,
          output |-> <<"HTTP probe failed with statuscode: ">> \o Itoa(code),
          err |-> NoErr]

\* classify with the redirect boundary off by one: 300 counts as a success
classifyOffByOne(code, respBody) ==
    IF code >= StatusOK /\ code < StatusBadRequest
    THEN IF code > StatusMultipleChoices
         THEN [result |-> Warning, output |-> respBody, err |-> NoErr]
         ELSE [result |-> Success, output |-> respBody, err |-> NoErr]
    ELSE [result |-> Failure,
          output |-> <<"HTTP probe failed with statuscode: ">> \o Itoa(code),
          err |-> NoErr]

\* the status-code classification that ends doHTTPProbe
classify(code, respBody) ==
    IF code >= StatusOK /\ code < StatusBadRequest
    THEN IF code >= StatusMultipleChoices
         THEN [result |-> Warning, output |-> respBody, err |-> NoErr]
         ELSE [result |-> Success, output |-> respBody, err |-> NoErr]
    ELSE [result |-> Failure,
          output |-> <<"HTTP probe failed with statuscode: ">> \o Itoa(code),
          err |-> NoErr]

\* utilio.ReadAtMost: read up to limit + 1 bytes; a read error is returned as
\* it comes; a body of more than limit bytes is cut to its first limit bytes
\* and reported with ErrLimitReached
ReadAtMost(body, limit, ioErr) ==
    IF ioErr # NoErr THEN [data |-> <<>>, err |-> ioErr]
    ELSE IF Len(body) > limit THEN [data |-> SubSeq(body, 1, limit), err |-> ErrLimitReached]
    ELSE [data |-> body, err |-> NoErr]

\* doHTTPProbe treating the reached limit like any other read error
doHTTPProbeLimitFatal(resp, derr, read) ==
    IF derr # NoErr
    THEN [result |-> Failure, output |-> derr.str, err |-> NoErr]
    ELSE IF read.err # NoErr
         THEN [result |-> Failure, output |-> <<>>, err |-> read.err]
         ELSE classify(resp.StatusCode, read.data)

\* doHTTPProbe handing the error of client.Do on to its caller
doHTTPProbePropagate(resp, derr, read) ==
    IF derr # NoErr
    THEN [result |-> Failure, output |-> derr.str, err |-> derr]
    ELSE IF read.err # NoErr /\ read.err # ErrLimitReached
         THEN [result |-> Failure, output |-> <<>>, err |-> read.err]
         ELSE classify(resp.StatusCode, read.data)

\* doHTTPProbe from the return of client.Do on: derr is Do's error, resp the
\* response, read what ReadAtMost returned for its body.
doHTTPProbe(resp, derr, read) ==
    IF derr # NoErr
    THEN [result |-> Failure, output |-> derr.str, err |-> NoErr]
    ELSE IF read.err # NoErr /\ read.err # ErrLimitReached
         THEN [result |-> Failure, output |-> <<>>, err |-> read.err]
         ELSE classify(resp.StatusCode, read.data)

(***************************************************************************)
(* The probers RunProbe delegates to.                                      *)
(***************************************************************************)
(***************************************************************************)
(* The HTTP request: headers, host and body.                               *)
(*                                                                         *)
(* An http.Header is Nil (a nil map) or <<m>>, m a function from header    *)
(* names to the sequence of their values; a url.Values is such a function  *)
(* from form keys.                                                         *)
(***************************************************************************)
DefaultUserAgent == "kmodules.xyz/client-go/release-11.0"
ContentUrlEncodedForm == "application/x-www-form-urlencoded"
ContentJson == "application/json"

\* http.Header{}, make(http.Header)
EmptyHeader == Ptr(<<>>)

\* _, ok := h[key]
has(h, key) == h # Nil /\ key \in DOMAIN Deref(h)

\* Header.Get: the first value under the key, "" when there is none
Get(h, key) ==
    IF has(h, key) /\ Deref(h)[key] # <<>> THEN Deref(h)[key][1] ELSE ""

\* Header.Set: the key holds the one value
Set(h, key, value) ==
    LET m == Deref(h)
    IN  Ptr([k \in DOMAIN m \cup {key} |-> IF k = key THEN <<value>> ELSE m[k]])

RECURSIVE buildHeaderFrom(_, _)
\* the loop of buildHeader: headers[Name] = append(headers[Name], Value)
buildHeaderFrom(headerList, headers) ==
    IF headerList = <<>> THEN headers
    ELSE LET h   == Head(headerList)
             m   == Deref(headers)
             old == IF h.Name \in DOMAIN m THEN m[h.Name] ELSE <<>>
         IN  buildHeaderFrom(Tail(headerList),
                 Ptr([k \in DOMAIN m \cup {h.Name} |->
                         IF k = h.Name THEN Append(old, h.Value) ELSE m[k]]))

\* buildHeader takes a list of <name, value> pairs and returns the header map
buildHeader(headerList) == buildHeaderFrom(headerList, EmptyHeader)

\* net.JoinHostPort(host, strconv.Itoa(port)): the Host of a URL
URLHost(u) == JoinHostPort(u.Hostname, u.Port)

\* http.NewRequest: the request starts with no header and the host of its URL
NewRequest(method, url, body) ==
    [Method |-> method, URL |-> url, Header |-> EmptyHeader, Host |-> URLHost(url),
     Body |-> body]

\* the keys forms are drawn from, in the order Encode sorts them
FormKeys == <<"age", "name">>

\* url.QueryEscape on the texts forms are drawn from: a space becomes "+"
QueryEscape(t) == CASE t = "who cares" -> "who+cares" [] OTHER -> t

RECURSIVE EncodeFrom(_, _, _)
\* the text Encode writes from the j-th value of the i-th key on
EncodeFrom(v, i, j) ==
    IF i > Len(FormKeys) THEN <<>>
    ELSE LET k == FormKeys[i]
         IN  IF k \notin DOMAIN v \/ j > Len(v[k]) THEN EncodeFrom(v, i + 1, 1)
             ELSE LET rest == EncodeFrom(v, i, j + 1)
                  IN  <<QueryEscape(k), "=", QueryEscape(v[k][j])>>
                        \o (IF rest = <<>> THEN <<>> ELSE <<"&">> \o rest)

\* url.Values.Encode: "key=value" pairs joined by "&", sorted by key
Encode(v) == EncodeFrom(v, 1, 1)

\* setHeaders setting the default User-Agent whatever the caller supplied
setHeadersAlwaysDefault(request, headers) ==
    LET hs == Set(IF headers = Nil THEN EmptyHeader ELSE headers,
                  "User-Agent", DefaultUserAgent)
    IN  [request EXCEPT !.Header = hs,
                        !.Host = IF Get(hs, "Host") # "" THEN <<Get(hs, "Host")>> ELSE @]

\* setHeaders leaving the host of the request alone
setHeadersNoHost(request, headers) ==
    LET hs == IF has(headers, "User-Agent") THEN headers
              ELSE Set(IF headers = Nil THEN EmptyHeader ELSE headers,
                       "User-Agent", DefaultUserAgent)
    IN  [request EXCEPT !.Header = hs]

\* doHTTPProbe up to client.Do: the User-Agent is defaulted, the supplied
\* headers become the headers of the request, a Host header becomes its host
setHeaders(request, headers) ==
    LET hs == IF has(headers, "User-Agent") THEN headers
              ELSE Set(IF headers = Nil THEN EmptyHeader ELSE headers,
                       "User-Agent", DefaultUserAgent)
    IN  [request EXCEPT !.Header = hs,
                        !.Host = IF Get(hs, "Host") # "" THEN <<Get(hs, "Host")>> ELSE @]

\* doHTTPProbe working on a copy of the header map it is given
callerHeadersCopied(headers) == headers

\* what the caller's header map holds after doHTTPProbe: headers.Set writes the
\* default User-Agent into the map the caller gave; a nil map is replaced by a
\* map of doHTTPProbe's own and stays nil for the caller
callerHeaders(headers) ==
    IF headers = Nil \/ has(headers, "User-Agent") THEN headers
    ELSE Set(headers, "User-Agent", DefaultUserAgent)

\* DoHTTPPostProbe sending the raw body whenever there is one
DoHTTPPostProbeBodyFirst(url, headers, form, body) ==
    LET request ==
            IF body # <<>>
            THEN [NewRequest("POST", url, body)
                    EXCEPT !.Header = Set(@, "Content-Type", ContentJson)]
            ELSE IF form # Nil
            THEN [NewRequest("POST", url, Encode(Deref(form)))
                    EXCEPT !.Header = Set(@, "Content-Type", ContentUrlEncodedForm)]
            ELSE NewRequest("POST", url, <<>>)
    IN  setHeaders(request, headers)

\* DoHTTPPostProbe up to client.Do: the request it hands to the client
DoHTTPPostProbe(url, headers, form, body) ==
    LET request ==
            IF form # Nil
            THEN [NewRequest("POST", url, Encode(Deref(form)))
                    EXCEPT !.Header = Set(@, "Content-Type", ContentUrlEncodedForm)]
            ELSE IF body # <<>>
            THEN [NewRequest("POST", url, body)
                    EXCEPT !.Header = Set(@, "Content-Type", ContentJson)]
            ELSE NewRequest("POST", url, <<>>)
    IN  setHeaders(request, headers)

\* DoHTTPGetProbe up to client.Do: a GET request without a body
DoHTTPGetProbe(url, headers) == setHeaders(NewRequest("GET", url, <<>>), headers)

\* the client of Probe built without a timeout
newClientNoTimeout(t, follow) == [Timeout |-> 0, CheckRedirect |-> follow]

\* the http.Client Probe builds: the caller's timeout and the redirect policy
\* of the prober (CheckRedirect stands for redirectChecker(follow))
newClient(t, follow) == [Timeout |-> t, CheckRedirect |-> follow]

\* net/http: a client whose Timeout is positive gives up once it has expired;
\* a Timeout of zero means no timeout
Expired(c, elapsed) == c.Timeout > 0 /\ elapsed >= c.Timeout

\* tcpprobe: a dial that connects is a success, a dial error a failure
tcpProbe(dialErr) ==
    IF dialErr = NoErr
    THEN [result |-> Success, output |-> <<>>, err |-> NoErr]
    ELSE [result |-> Failure, output |-> dialErr.str, err |-> NoErr]

\* what the exec prober may hand back: RunProbe returns it untouched
ExecOutcomes ==
    { [result |-> Success, output |-> <<"out">>, err |-> NoErr],
      [result |-> Failure, output |-> <<"out">>, err |-> NoErr],
      [result |-> Unknown, output |-> <<>>, err |-> Error("Exec", 0, <<"exec failed">>)] }

\* selected with httpGet inspected before exec
selectedHTTPFirst(h) ==
    IF h.HTTPGet # Nil THEN "httpGet"
    ELSE IF h.Exec # Nil THEN "exec"
    ELSE IF h.HTTPPost # Nil THEN "httpPost"
    ELSE IF h.TCPSocket # Nil THEN "tcp"
    ELSE "none"

\* the order in which RunProbe inspects the handler's variants
selected(h) ==
    IF h.Exec # Nil THEN "exec"
    ELSE IF h.HTTPGet # Nil THEN "httpGet"
    ELSE IF h.HTTPPost # Nil THEN "httpPost"
    ELSE IF h.TCPSocket # Nil THEN "tcp"
    ELSE "none"

(***************************************************************************)
(* The inputs the model draws from.                                        *)
(***************************************************************************)
FromInt(n) == [Type |-> "Int", IntVal |-> n, StrVal |-> <<>>]
FromString(s) == [Type |-> "String", IntVal |-> 0, StrVal |-> s]

BoundedSeq(S, n) == UNION { [1..k -> S] : k \in 0..n }

IntVals == {0, 1, 65535, 65536}
StrVals == { <<"f">>, <<"8", "0">>, <<"x">>, <<"8", "x">>, <<"0">>, <<"-", "1">>,
             <<>>, Itoa(65536) }
PortRefs == { FromInt(n) : n \in IntVals } \cup { FromString(s) : s \in StrVals }

PortEntries == [Name : {<<"f">>, <<"8", "0">>}, ContainerPort : {65535, 65538}]
PortContainers == [Name : {"foo"}, Ports : BoundedSeq(PortEntries, MaxContainerPorts)]

PodIP == "10.0.0.1"
ThePod == [Name |-> "pod", Namespace |-> "ns", UID |-> "uid", Containers |-> {"foo"}]
Pods == {Nil, Ptr(ThePod)}

NoHandler == [Exec |-> Nil, HTTPGet |-> Nil, HTTPPost |-> Nil, TCPSocket |-> Nil]

\* the header list of the handlers: a name given twice, and a name in lower case
HTTPHeaders ==
    << [Name |-> "X-Probe", Value |-> "1"], [Name |-> "X-Probe", Value |-> "2"],
       [Name |-> "user-agent", Value |-> "probe/1.0"] >>

\* the form and the raw bodies POST probes are given
TheForm == [age |-> <<"who cares">>, name |-> <<"form-test">>]
Forms == {Nil, Ptr(<<>>), Ptr(TheForm)}
RawBodies == {<<>>, <<"{}">>}

\* core.HTTPGetAction, HTTPPostAction, core.TCPSocketAction
HTTPAction(host, ref) ==
    [Scheme |-> "HTTP", Host |-> host, Port |-> ref, Path |-> <<"/", "healthz">>,
     HTTPHeaders |-> HTTPHeaders]
HTTPPostAction(host, ref, form, body) ==
    [Scheme |-> "HTTP", Host |-> host, Port |-> ref, Path |-> <<"/", "healthz">>,
     HTTPHeaders |-> HTTPHeaders, Body |-> body, Form |-> form]
TCPAction(host, ref) == [Host |-> host, Port |-> ref]

\* handlers with one network variant, over every port reference
PortHandlers ==
    { [NoHandler EXCEPT !.HTTPGet = Ptr(HTTPAction("", ref))] : ref \in PortRefs }
    \cup { [NoHandler EXCEPT !.HTTPPost = Ptr(HTTPPostAction("", ref, Nil, <<>>))] :
             ref \in PortRefs }
    \cup { [NoHandler EXCEPT !.TCPSocket = Ptr(TCPAction("", ref))] : ref \in PortRefs }

\* handlers with any set of variants populated, over a few actions
DispatchTargets ==
    { <<"h.example", FromInt(8080)>>, <<"", FromString(<<"f">>)>>, <<"", FromInt(0)>> }
OptHTTPAction == {Nil} \cup { Ptr(HTTPAction(t[1], t[2])) : t \in DispatchTargets }
\* a form and a body with the first target, a body with the second, none with the third
OptHTTPPostAction ==
    { Nil,
      Ptr(HTTPPostAction("h.example", FromInt(8080), Ptr(TheForm), <<"{}">>)),
      Ptr(HTTPPostAction("", FromString(<<"f">>), Nil, <<"{}">>)),
      Ptr(HTTPPostAction("", FromInt(0), Nil, <<>>)) }
OptTCPAction == {Nil} \cup { Ptr(TCPAction(t[1], t[2])) : t \in DispatchTargets }
DispatchHandlers ==
    [Exec : {Nil, Ptr([Command |-> <<"true">>])},
     HTTPGet : OptHTTPAction, HTTPPost : OptHTTPPostAction, TCPSocket : OptTCPAction]
DispatchContainers ==
    { [Name |-> "foo", Ports |-> <<[Name |-> <<"f">>, ContainerPort |-> 8080]>>],
      [Name |-> "buzz", Ports |-> <<>>] }

\* the target of a probe made on an HTTP prober directly
DirectURL == formatURL("http", "127.0.0.1", 8080, <<"/", "redirect">>)
\* a hostname that no probe target has
OtherHost == "0.0.0.0"

FinalStatusCodes == {199, 200, 299, 300, 399, 400, 500}
RedirectStatusCodes == {302}
\* bytes.Repeat: n times the byte c
Repeat(c, n) == [i \in 1..n |-> c]
\* no body, a short one, one of exactly the budget and one a byte longer
Bodies == { <<>>, <<"b">>,
            Repeat("a", maxRespBodyLength), Repeat("a", maxRespBodyLength + 1) }

\* where a server that redirects to one given place sends its clients: the
\* same hostname on another port, the same hostname under another scheme, or
\* another host
NewPortURL == [DirectURL EXCEPT !.Port = 8081]
NewSchemeURL == [DirectURL EXCEPT !.Scheme = "https"]
OtherHostURL == [DirectURL EXCEPT !.Hostname = OtherHost]
RedirectLocations == {NewPortURL, NewSchemeURL, OtherHostURL}

\* the Locations a server may redirect to: the one it was set up with, or else
\* the URL of the first request on its own host or on another one
Locations(first) ==
    IF "loc" \in DOMAIN args THEN {args.loc}
    ELSE { [first EXCEPT !.Hostname = h] : h \in {first.Hostname, OtherHost} }

\* The responses a server may give to a request of a chain that began at first:
\* a final response, or a redirect with its Location.
Responses(first) ==
    [StatusCode : FinalStatusCodes, Location : {Nil}, Body : Bodies]
    \cup [StatusCode : RedirectStatusCodes,
          Location : { Ptr(l) : l \in Locations(first) },
          Body : {<<>>}]

\* the errors reading a response body may end in
ReadErrors == { Error("Read", 0, <<"unexpected EOF">>) }

\* what ReadAtMost may return for a body: what the budget leaves of it, or a
\* read error
BodyReads(body) ==
    { ReadAtMost(body, maxRespBodyLength, ioErr) : ioErr \in {NoErr} \cup ReadErrors }

\* the errors a request may end in before any response (dial, TLS, timeout)
TransportErrors == { Error("Transport", 0, <<"connection refused">>) }

\* the errors a TCP dial may end in: refused, timed out, unreachable
DialErrors ==
    { Error("Dial", 0, <<"dial tcp ", "connect: connection refused">>),
      Error("Dial", 0, <<"dial tcp ", "i/o timeout">>),
      Error("Dial", 0, <<"dial tcp ", "connect: no route to host">>) }

\* the paths formatURL is given: every text of at most MaxPathLen tokens
PathTokens == {"/", "?", "#", ":", "%", " ", "%20", "p"}
Paths == BoundedSeq(PathTokens, MaxPathLen)

\* the schemes, hosts and port formatURL is given
URLTargets ==
    { [scheme |-> "http", host |-> "localhost", port |-> 93],
      [scheme |-> "https", host |-> "::1", port |-> 93] }

\* the header maps a caller hands to Probe
HeaderMaps ==
    { Nil, EmptyHeader,
      Ptr([k \in {"User-Agent"} |-> <<"foo/1.0">>]),
      Ptr([k \in {"User-Agent"} |-> <<"">>]),
      Ptr([k \in {"Host"} |-> <<"muffins.cupcakes.org">>]),
      Ptr([k \in {"Host"} |-> <<"">>]),
      Ptr([k \in {"Content-Type"} |-> <<"text/plain">>]),
      Ptr([k \in {"Host", "User-Agent"} |->
              IF k = "Host" THEN <<"muffins.cupcakes.org">> ELSE <<"foo/1.0">>]) }

NoArgs == [headers |-> Nil, form |-> Nil, body |-> <<>>]

\* the timeouts a caller gives, in seconds
Timeouts == {1, 2}

(***************************************************************************)
(* The state machine.                                                      *)
(***************************************************************************)
Fresh ==
    /\ pc = "idle"
    /\ extracted = Nil
    /\ calls = <<>>
    /\ req = Nil
    /\ via = <<>>
    /\ res = Nil
    /\ doErr = NoErr
    /\ readErr = NoErr
    /\ client = Nil
    /\ handed = Nil
    /\ dialed = Nil
    /\ built = Nil
    /\ clock = 0
    /\ result = "none"
    /\ output = <<>>
    /\ err = NoErr

\* RunProbe on the prober NewProber builds, over every port reference
InitPorts ==
    /\ entry = "RunProbe"
    /\ followNonLocalRedirects = FALSE
    /\ p \in PortHandlers
    /\ pod = Ptr(ThePod)
    /\ container \in PortContainers
    /\ timeout = 1
    /\ args = NoArgs

\* RunProbe on the prober NewProber builds, over every set of variants
InitDispatch ==
    /\ entry = "RunProbe"
    /\ followNonLocalRedirects = FALSE
    /\ p \in DispatchHandlers
    /\ pod \in Pods
    /\ container \in DispatchContainers
    /\ timeout \in Timeouts
    /\ args = NoArgs

\* Probe on a prober built by NewHttpGet or NewHttpPost with either flag
InitDirect ==
    /\ entry \in {"HttpGet.Probe", "HttpPost.Probe"}
    /\ followNonLocalRedirects \in BOOLEAN
    /\ p = NoHandler
    /\ pod = Ptr(ThePod)
    /\ container \in {c \in DispatchContainers : c.Name = "foo"}
    /\ timeout = 1
    /\ args = NoArgs

\* Probe on an HTTP prober over the headers, forms and bodies a caller may give
InitRequests ==
    /\ entry \in {"HttpGet.Probe", "HttpPost.Probe"}
    /\ followNonLocalRedirects = FALSE
    /\ p = NoHandler
    /\ pod = Ptr(ThePod)
    /\ container \in {c \in DispatchContainers : c.Name = "foo"}
    /\ timeout = 1
    /\ args \in [headers : HeaderMaps, form : Forms, body : RawBodies]
    /\ entry = "HttpGet.Probe" => (args.form = Nil /\ args.body = <<>>)

\* Probe against a server that redirects to one place, with or without a Host
\* header
InitLocality ==
    /\ entry = "HttpGet.Probe"
    /\ followNonLocalRedirects \in BOOLEAN
    /\ p = NoHandler
    /\ pod = Ptr(ThePod)
    /\ container \in {c \in DispatchContainers : c.Name = "foo"}
    /\ timeout = 1
    /\ args \in [headers : {Nil, Ptr([k \in {"Host"} |-> <<"muffins.cupcakes.org">>])},
                  form : {Nil}, body : {<<>>}, loc : RedirectLocations]

\* formatURL called on its own, as its test does
InitURLs ==
    /\ entry = "formatURL"
    /\ followNonLocalRedirects = FALSE
    /\ p = NoHandler
    /\ pod = Ptr(ThePod)
    /\ container \in {c \in DispatchContainers : c.Name = "foo"}
    /\ timeout = 1
    /\ args \in { [target |-> t, path |-> path] : t \in URLTargets, path \in Paths }

Init ==
    /\ Fresh
    /\ other = Nil
    /\ status = [PodIP |-> PodIP]
    /\ (InitPorts \/ InitDispatch \/ InitDirect \/ InitRequests \/ InitLocality \/ InitURLs)

inputs == <<entry, followNonLocalRedirects, p, pod, status, container, timeout, args>>
exchange == <<req, via, res, doErr, readErr, client, clock, handed>>
dialing == <<dialed>>

\* a return that starts the call over when the result is a Failure
ReturnRetryOnFailure(r) ==
    /\ pc' = IF r.result = Failure THEN "idle" ELSE "done"
    /\ result' = r.result
    /\ output' = r.output
    /\ err' = r.err

Return(r) ==
    /\ pc' = "done"
    /\ result' = r.result
    /\ output' = r.output
    /\ err' = r.err

\* Probe taking the client a call under way on the same prober has built
StartHTTPSharedClient(prober, request, headers) ==
    /\ calls' = Append(calls, [prober |-> prober, host |-> request.URL.Hostname,
                                port |-> request.URL.Port, timeout |-> Ptr(timeout)])
    /\ client' = IF other # Nil /\ Deref(other).client # Nil THEN Deref(other).client
                 ELSE Ptr(newClient(timeout, followNonLocalRedirects))
    /\ req' = Ptr(request)
    /\ handed' = callerHeaders(headers)
    /\ pc' = "do"
    /\ UNCHANGED <<via, res, doErr, readErr, clock, dialing, result, output, err>>

\* httpprobe: Probe builds the client and the request and enters doHTTPProbe,
\* which hands the request to client.Do
StartHTTP(prober, request, headers) ==
    /\ calls' = Append(calls, [prober |-> prober, host |-> request.URL.Hostname,
                                port |-> request.URL.Port, timeout |-> Ptr(timeout)])
    /\ client' = Ptr(newClient(timeout, followNonLocalRedirects))
    /\ req' = Ptr(request)
    /\ handed' = callerHeaders(headers)
    /\ pc' = "do"
    /\ UNCHANGED <<via, res, doErr, readErr, clock, dialing, result, output, err>>

\* strings.ToLower on a URI scheme
ToLower(scheme) ==
    CASE scheme = "HTTP" -> "http" [] scheme = "HTTPS" -> "https" [] OTHER -> scheme

\* host defaulting with the pod IP taken whatever the handler says
resolveHostPodIP(host, podStatus) == podStatus.PodIP

\* the host a network variant targets: its host field, or the pod IP when that
\* field is empty
resolveHost(host, podStatus) == IF host = "" THEN podStatus.PodIP ELSE host

\* the HTTP branches reporting a port that does not resolve as a failed probe
HTTPBranchFailureOnBadPort(action, prober, method) ==
    LET scheme == ToLower(action.Scheme)
        host   == resolveHost(action.Host, status)
        e      == extractPort(action.Port, container)
        path   == action.Path
        url    == formatURL(scheme, host, e.port, path)
        hdrs   == buildHeader(action.HTTPHeaders)
    IN  /\ extracted' = Ptr(e)
        /\ IF e.err # NoErr
           THEN /\ Return([result |-> Failure, output |-> e.err.str, err |-> NoErr])
                /\ UNCHANGED <<calls, exchange, dialing>>
           ELSE IF method = "GET"
           THEN StartHTTP(prober, DoHTTPGetProbe(url, hdrs), hdrs)
           ELSE StartHTTP(prober, DoHTTPPostProbe(url, hdrs, action.Form, action.Body), hdrs)

\* the httpGet and httpPost branches of RunProbe
HTTPBranch(action, prober, method) ==
    LET scheme == ToLower(action.Scheme)
        host   == resolveHost(action.Host, status)
        e      == extractPort(action.Port, container)
        path   == action.Path
        url    == formatURL(scheme, host, e.port, path)
        hdrs   == buildHeader(action.HTTPHeaders)
    IN  /\ extracted' = Ptr(e)
        /\ IF e.err # NoErr
           THEN /\ Return([result |-> Unknown, output |-> <<>>, err |-> e.err])
                /\ UNCHANGED <<calls, exchange, dialing>>
           ELSE IF method = "GET"
           THEN StartHTTP(prober, DoHTTPGetProbe(url, hdrs), hdrs)
           ELSE StartHTTP(prober, DoHTTPPostProbe(url, hdrs, action.Form, action.Body), hdrs)

\* the tcpSocket branch calling the prober with a timeout of its own
TCPBranchOwnTimeout(action) ==
    LET e    == extractPort(action.Port, container)
        host == resolveHost(action.Host, status)
    IN  /\ extracted' = Ptr(e)
        /\ UNCHANGED exchange
        /\ IF e.err # NoErr
           THEN /\ Return([result |-> Unknown, output |-> <<>>, err |-> e.err])
                /\ UNCHANGED <<calls, dialing>>
           ELSE /\ calls' = Append(calls, [prober |-> "tcp", host |-> host, port |-> e.port,
                                           timeout |-> Ptr(1)])
                /\ \E derr \in {NoErr} \cup DialErrors :
                      /\ dialed' = Ptr(derr)
                      /\ Return(tcpProbe(derr))

\* the tcpSocket branch dialing a port it could not resolve
TCPBranchDialUnresolved(action) ==
    LET e    == extractPort(action.Port, container)
        host == resolveHost(action.Host, status)
    IN  /\ extracted' = Ptr(e)
        /\ UNCHANGED exchange
        /\ calls' = Append(calls, [prober |-> "tcp", host |-> host, port |-> e.port,
                                   timeout |-> Ptr(timeout)])
        /\ \E derr \in {NoErr} \cup DialErrors :
              /\ dialed' = Ptr(derr)
              /\ Return(tcpProbe(derr))

\* the tcpSocket branch of RunProbe
TCPBranch(action) ==
    LET e    == extractPort(action.Port, container)
        host == resolveHost(action.Host, status)
    IN  /\ extracted' = Ptr(e)
        /\ UNCHANGED exchange
        /\ IF e.err # NoErr
           THEN /\ Return([result |-> Unknown, output |-> <<>>, err |-> e.err])
                /\ UNCHANGED <<calls, dialing>>
           ELSE /\ calls' = Append(calls, [prober |-> "tcp", host |-> host, port |-> e.port,
                                           timeout |-> Ptr(timeout)])
                /\ \E derr \in {NoErr} \cup DialErrors :
                      /\ dialed' = Ptr(derr)
                      /\ Return(tcpProbe(derr))

RunProbe ==
    /\ pc = "idle"
    /\ entry = "RunProbe"
    /\ UNCHANGED <<inputs, built, other>>
    /\ CASE selected(p) = "exec" ->
              \* Exec.Probe takes the config, the pod, the container and the command
              /\ calls' = Append(calls, [prober |-> "exec", host |-> "", port |-> 0,
                                         timeout |-> Nil])
              /\ \E o \in ExecOutcomes : Return(o)
              /\ UNCHANGED <<extracted, exchange, dialing>>
         [] selected(p) = "httpGet" -> HTTPBranch(Deref(p.HTTPGet), "httpGet", "GET")
         [] selected(p) = "httpPost" -> HTTPBranch(Deref(p.HTTPPost), "httpPost", "POST")
         [] selected(p) = "tcp" -> TCPBranch(Deref(p.TCPSocket))
         [] OTHER ->
              /\ UNCHANGED <<extracted, calls, exchange, dialing>>
              /\ IF pod = Nil
                 THEN \* formatPod(pod) reads pod.Name through a nil pointer
                      /\ pc' = "panic"
                      /\ UNCHANGED <<result, output, err>>
                 ELSE Return([result |-> Unknown, output |-> <<>>,
                              err |-> Error("MissingHandler", 0,
                                            <<"missing probe handler for ">>
                                              \o formatPod(Deref(pod))
                                              \o <<":", container.Name>>)])

\* Probe called on an HTTP prober directly
HTTPProbe ==
    /\ pc = "idle"
    /\ entry \in {"HttpGet.Probe", "HttpPost.Probe"}
    /\ UNCHANGED <<inputs, extracted, built, other>>
    /\ IF entry = "HttpGet.Probe"
       THEN StartHTTP("httpGet", DoHTTPGetProbe(DirectURL, args.headers), args.headers)
       ELSE StartHTTP("httpPost",
                      DoHTTPPostProbe(DirectURL, args.headers, args.form, args.body),
                      args.headers)

\* formatURL called on its own
FormatURL ==
    /\ pc = "idle"
    /\ entry = "formatURL"
    /\ built' = Ptr(formatURL(args.target.scheme, args.target.host, args.target.port,
                              args.path))
    /\ pc' = "done"
    /\ UNCHANGED <<inputs, extracted, calls, exchange, dialing, result, output, err, other>>

\* net/http: a 301, 302 or 303 turns a request that is no GET or HEAD into a GET
redirectMethod(method, code) ==
    IF code \in {301, 302, 303} /\ method \notin {"GET", "HEAD"} THEN "GET" ELSE method

\* doHTTPProbe once client.Do has returned
Finish(resp, derr) ==
    /\ doErr' = derr
    /\ \E read \in (IF derr = NoErr THEN BodyReads(resp.Body)
                    ELSE {[data |-> <<>>, err |-> NoErr]}) :
          /\ readErr' = read.err
          /\ Return(doHTTPProbe(resp, derr, read))

\* Of a request that follows a redirect the model keeps the method and the URL,
\* which is all the redirect policy reads.
\* One round of client.Do: send the request, then either return (an error, or a
\* response that is no redirect or that CheckRedirect keeps) or follow the
\* redirect; when Do returns, doHTTPProbe reads the body and classifies.
ClientDo ==
    /\ pc = "do"
    /\ UNCHANGED <<inputs, extracted, calls, client, clock, handed, dialing, built, other>>
    /\ via' = Append(via, Deref(req))
    /\ \/ \E terr \in (IF Expired(Deref(client), clock) THEN {ErrTimeout} ELSE TransportErrors) :
             /\ UNCHANGED <<req, readErr>>
             /\ res' = Nil
             /\ doErr' = terr
             /\ Return(doHTTPProbe(Nil, terr, [data |-> <<>>, err |-> NoErr]))
       \/ \E resp \in Responses(via'[1].URL) :
             /\ ~Expired(Deref(client), clock)
             /\ res' = Ptr(resp)
             /\ IF resp.Location = Nil
                THEN /\ Finish(resp, NoErr)
                     /\ UNCHANGED req
                ELSE LET next  == [Method |-> redirectMethod(Deref(req).Method, resp.StatusCode),
                                   URL |-> Deref(resp.Location)]
                         check == redirectChecker(Deref(client).CheckRedirect, next, via')
                     IN  IF check = NoErr
                         THEN /\ req' = Ptr(next)
                              /\ UNCHANGED <<pc, doErr, readErr, result, output, err>>
                         ELSE IF check = ErrUseLastResponse
                         THEN /\ Finish(resp, NoErr)
                              /\ UNCHANGED req
                         ELSE /\ Finish(resp, check)
                              /\ UNCHANGED req

\* a second passes while client.Do waits for an answer
Tick ==
    /\ pc = "do"
    /\ ~Expired(Deref(client), clock)
    /\ clock < MaxClock
    /\ clock' = clock + 1
    /\ UNCHANGED <<pc, inputs, extracted, calls, req, via, res, doErr, readErr, client, handed, dialing,
                   built, other,
                   result, output, err>>

Next == RunProbe \/ HTTPProbe \/ ClientDo \/ Tick \/ FormatURL

Spec == Init /\ [][Next]_vars

(***************************************************************************)
(* Two calls of RunProbe on one prober. The variables above are those of   *)
(* the call taking the next step, other holds the call that waits, and     *)
(* Switch lets the waiting call run: any interleaving of the steps of the  *)
(* two calls is a behaviour. The prober (followNonLocalRedirects) is what  *)
(* the two calls share.                                                    *)
(***************************************************************************)
\* the state of a call: its arguments, its locals and what it has returned
Locals ==
    [pc |-> pc, entry |-> entry, p |-> p, pod |-> pod, status |-> status,
     container |-> container, timeout |-> timeout, args |-> args,
     extracted |-> extracted, calls |-> calls, req |-> req, via |-> via, res |-> res,
     doErr |-> doErr, readErr |-> readErr, client |-> client, handed |-> handed,
     dialed |-> dialed, built |-> built, clock |-> clock, result |-> result,
     output |-> output, err |-> err]

\* a call of RunProbe that has not started
FreshCall(h, t, a) ==
    [pc |-> "idle", entry |-> "RunProbe", p |-> h, pod |-> Ptr(ThePod),
     status |-> [PodIP |-> PodIP],
     container |-> [Name |-> "foo", Ports |-> <<[Name |-> <<"f">>, ContainerPort |-> 8080]>>],
     timeout |-> t, args |-> a,
     extracted |-> Nil, calls |-> <<>>, req |-> Nil, via |-> <<>>, res |-> Nil,
     doErr |-> NoErr, readErr |-> NoErr, client |-> Nil, handed |-> Nil,
     dialed |-> Nil, built |-> Nil, clock |-> 0, result |-> "none",
     output |-> <<>>, err |-> NoErr]

\* the handlers of the second call: each variant on its own, and none
ConcurrentHandlers ==
    { h \in DispatchHandlers :
        Cardinality({ v \in {h.Exec, h.HTTPGet, h.HTTPPost, h.TCPSocket} : v # Nil }) <= 1 }

\* the endpoints answer a redirect, if any, by sending to another host
OneRedirect == [headers |-> Nil, form |-> Nil, body |-> <<>>, loc |-> OtherHostURL]

\* an httpGet call with a timeout of 1 and a second call with a timeout of 2
InitConcurrent ==
    /\ Fresh
    /\ status = [PodIP |-> PodIP]
    /\ entry = "RunProbe"
    /\ followNonLocalRedirects = FALSE
    /\ p = [NoHandler EXCEPT !.HTTPGet = Ptr(HTTPAction("", FromInt(8080)))]
    /\ pod = Ptr(ThePod)
    /\ container \in {c \in DispatchContainers : c.Name = "foo"}
    /\ timeout = 1
    /\ args = OneRedirect
    /\ other \in { Ptr(FreshCall(h, 2, OneRedirect)) : h \in ConcurrentHandlers }

\* the call that waits goes on and the one that ran waits
Switch ==
    /\ other # Nil
    /\ other' = Ptr(Locals)
    /\ UNCHANGED followNonLocalRedirects
    /\ LET o == Deref(other)
       IN  /\ pc' = o.pc /\ entry' = o.entry /\ p' = o.p /\ pod' = o.pod
           /\ status' = o.status /\ container' = o.container /\ timeout' = o.timeout
           /\ args' = o.args /\ extracted' = o.extracted /\ calls' = o.calls
           /\ req' = o.req /\ via' = o.via /\ res' = o.res /\ doErr' = o.doErr
           /\ readErr' = o.readErr /\ client' = o.client /\ handed' = o.handed
           /\ dialed' = o.dialed /\ built' = o.built /\ clock' = o.clock
           /\ result' = o.result /\ output' = o.output /\ err' = o.err

NextConcurrent == RunProbe \/ ClientDo \/ Tick \/ Switch

SpecConcurrent == InitConcurrent /\ [][NextConcurrent]_vars

(***************************************************************************)
(* Properties.                                                             *)
(***************************************************************************)
\* the probe is an HTTP probe whose client.Do handed a response back
Classified == pc = "done" /\ res # Nil /\ doErr = NoErr
ReadFailed == readErr # NoErr /\ readErr # ErrLimitReached
StatusOf(r) == Deref(r).StatusCode

\* the result the status code of a response stands for
ResultOfStatus(code) ==
    IF 200 <= code /\ code < 300 THEN Success
    ELSE IF 300 <= code /\ code < 400 THEN Warning
    ELSE Failure

\* C1 (as amended): the result of an HTTP probe is a function of the status code
\* of the response client.Do hands back and of whether its body could be read:
\* a body read error gives Failure whatever the status; otherwise 200..299 gives
\* Success, 300..399 Warning and any other code Failure with the diagnostic
\* "HTTP probe failed with statuscode: <code>"; the body's content plays no part.
C1_Classification ==
    Classified =>
        IF ReadFailed THEN result = Failure
        ELSE /\ result = ResultOfStatus(StatusOf(res))
             /\ err = NoErr
             /\ StatusOf(res) = 199 => result = Failure
             /\ StatusOf(res) \in {200, 299} => result = Success
             /\ StatusOf(res) \in {300, 399} => result = Warning
             /\ StatusOf(res) = 400 =>
                  /\ result = Failure
                  /\ output = <<"HTTP probe failed with statuscode: ", "4", "0", "0">>
             /\ result = Failure =>
                  output = <<"HTTP probe failed with statuscode: ">> \o Itoa(StatusOf(res))

\* a response of status 300 with a body was classified
C1_Witness ==
    /\ Classified /\ ~ReadFailed
    /\ StatusOf(res) = 300 /\ Deref(res).Body # <<>>
    /\ result = Warning

\* C1 as written: the status code alone decides the result.
C1_Original ==
    Classified => result = ResultOfStatus(StatusOf(res))

\* C2: once the network attempt of a probe has started, whatever fails is
\* returned as Failure with a nil error.
C2_NetworkFailuresHaveNilError ==
    (pc = "done" /\ via # <<>>) => err = NoErr

\* the highest-priority populated variant, spelled out case by case
Populated(h) ==
    {v \in {"exec", "httpGet", "httpPost", "tcp"} :
        \/ v = "exec" /\ h.Exec # Nil
        \/ v = "httpGet" /\ h.HTTPGet # Nil
        \/ v = "httpPost" /\ h.HTTPPost # Nil
        \/ v = "tcp" /\ h.TCPSocket # Nil}
Rank(v) == CASE v = "exec" -> 1 [] v = "httpGet" -> 2 [] v = "httpPost" -> 3 [] v = "tcp" -> 4
Resolved == extracted # Nil /\ Deref(extracted).err = NoErr

\* C3: RunProbe calls at most one prober, and only the prober of the populated
\* variant of highest priority (exec, httpGet, httpPost, tcpSocket); it does call
\* that prober unless port resolution fails.
C3_DispatchPriority ==
    (entry = "RunProbe" /\ pc # "idle" /\ Populated(p) # {}) =>
        /\ Len(calls) <= 1
        /\ \A i \in DOMAIN calls :
              /\ calls[i].prober \in Populated(p)
              /\ \A v \in Populated(p) : Rank(calls[i].prober) <= Rank(v)
        /\ (p.Exec # Nil \/ Resolved) => Len(calls) = 1

\* exec and httpGet were both populated and the exec prober alone was called
C3_Witness ==
    /\ entry = "RunProbe" /\ pc = "done"
    /\ p.Exec # Nil /\ p.HTTPGet # Nil
    /\ Len(calls) = 1 /\ calls[1].prober = "exec"

IsRedirect(r) == r # Nil /\ Deref(r).Location # Nil
SameHost(r) == Deref(Deref(r).Location).Hostname = via[1].URL.Hostname

\* C4 (as amended): with followNonLocalRedirects = false a redirect to the
\* hostname of the first request is followed as long as the chain holds fewer
\* than 10 requests (the one arriving when it holds 10 ends the probe with
\* Failure and a nil error), and the result is that of the last response; the
\* first redirect to another hostname is not followed: the 3xx is the response
\* classified, Warning with a nil error when its body is read.
C4_LocalRedirects ==
    (~followNonLocalRedirects /\ via # <<>>) =>
        /\ \A i \in DOMAIN via : via[i].URL.Hostname = via[1].URL.Hostname
        /\ pc = "do" =>
              /\ IsRedirect(res) /\ SameHost(res)
              /\ Deref(req).URL = Deref(Deref(res).Location)
              /\ Len(via) < 10
        /\ (pc = "done" /\ IsRedirect(res) /\ SameHost(res)) =>
              /\ Len(via) = 10
              /\ doErr = ErrStopped
              /\ result = Failure /\ err = NoErr
        /\ (pc = "done" /\ IsRedirect(res) /\ ~SameHost(res)) =>
              /\ doErr = NoErr
              /\ ~ReadFailed => (result = Warning /\ err = NoErr)
        /\ (Classified /\ ~ReadFailed) => result = ResultOfStatus(StatusOf(res))

\* a same-host redirect was followed and the next one, to another host, was not
C4_Witness ==
    /\ ~followNonLocalRedirects /\ pc = "done"
    /\ Len(via) = 2
    /\ IsRedirect(res) /\ ~SameHost(res)
    /\ result = Warning /\ err = NoErr

\* C4 as written: every same-host redirect is followed, and a redirect to
\* another host gives Warning with a nil error (its body being read).
C4_Original ==
    (~followNonLocalRedirects /\ pc = "done" /\ IsRedirect(res) /\ ~ReadFailed) =>
        /\ ~SameHost(res)
        /\ result = Warning /\ err = NoErr

\* C5: with followNonLocalRedirects = true redirects are followed to any host,
\* so that no redirect response is ever the one classified and the result is
\* that of the last response; a chain never holds more than 10 requests: the
\* redirect arriving when it holds 10 ends the probe with the redirect error,
\* result Failure and a nil error.
C5_FollowAllRedirects ==
    followNonLocalRedirects =>
        /\ Len(via) <= 10
        /\ (pc = "do" /\ via # <<>>) =>
              /\ IsRedirect(res)
              /\ Deref(req).URL = Deref(Deref(res).Location)
        /\ (pc = "done" /\ IsRedirect(res)) =>
              /\ Len(via) = 10
              /\ doErr = ErrStopped
              /\ result = Failure /\ err = NoErr
              /\ output = <<"stopped after 10 redirects">>
        /\ (Classified /\ ~ReadFailed) => result = ResultOfStatus(StatusOf(res))

\* a chain through another host was cut off at its tenth request
C5_Witness ==
    /\ followNonLocalRedirects /\ pc = "done"
    /\ Len(via) = 10 /\ doErr = ErrStopped
    /\ \E i \in DOMAIN via : via[i].URL.Hostname = OtherHost
    /\ result = Failure

\* the port reference RunProbe resolved: that of the first populated network variant
ResolvedRef ==
    IF p.HTTPGet # Nil THEN Deref(p.HTTPGet).Port
    ELSE IF p.HTTPPost # Nil THEN Deref(p.HTTPPost).Port
    ELSE Deref(p.TCPSocket).Port
Named(i) == container.Ports[i].Name = ResolvedRef.StrVal
NoneNamed == \A i \in DOMAIN container.Ports : ~Named(i)
\* integers whose decimal text is among the port references drawn
Decimals == {-1, 0, 80, 65536}

\* C6: port resolution returns a nil error only with a port p, 0 < p < 65536;
\* a resolved value outside that range, whatever the shape of the reference,
\* fails with "invalid port number: <value>", and no HTTP or TCP prober is
\* called with a port outside the range.
C6_PortRange ==
    /\ extracted # Nil =>
          LET e == Deref(extracted)
          IN  /\ e.err = NoErr => (0 < e.port /\ e.port < 65536)
              /\ (e.err.kind # "Syntax" /\ (e.port <= 0 \/ e.port >= 65536)) =>
                    e.err = Error("InvalidPort", e.port, <<>>)
    /\ \A i \in DOMAIN calls :
          (entry = "RunProbe" /\ calls[i].prober # "exec") =>
              (0 < calls[i].port /\ calls[i].port < 65536)

\* the string "65536" named no port, was parsed, and was rejected as 65536
C6_Witness ==
    /\ extracted # Nil /\ pc = "done"
    /\ ResolvedRef.Type = "String" /\ NoneNamed
    /\ Deref(extracted) = [port |-> 65536, err |-> Error("InvalidPort", 65536, <<>>)]
    /\ result = Unknown /\ calls = <<>>

\* C7: a numeric reference resolves to its number whatever the container
\* declares; a string reference resolves to the first declared port of that
\* name, in declaration order, also when the string is a decimal number or
\* several ports share the name; only when no port has the name is the string
\* read as a decimal integer.
C7_ResolutionOrder ==
    extracted # Nil =>
        LET e == Deref(extracted)
        IN  /\ ResolvedRef.Type = "Int" => e.port = ResolvedRef.IntVal
            /\ ResolvedRef.Type = "String" =>
                  /\ \A i \in DOMAIN container.Ports :
                        (Named(i) /\ \A j \in 1..(i - 1) : ~Named(j)) =>
                            e.port = container.Ports[i].ContainerPort
                  /\ NoneNamed =>
                        \A n \in Decimals :
                            ResolvedRef.StrVal = Itoa(n) =>
                                (e.port = n /\ e.err.kind # "Syntax")

\* two ports are named "80": the reference "80" resolved to the first, not to
\* the second and not to the integer 80
C7_Witness ==
    /\ extracted # Nil
    /\ ResolvedRef = FromString(<<"8", "0">>)
    /\ Len(container.Ports) = 2
    /\ Named(1) /\ Named(2)
    /\ container.Ports[1].ContainerPort # container.Ports[2].ContainerPort
    /\ Deref(extracted).port = container.Ports[1].ContainerPort

\* C8: a string reference that names no declared port and is no decimal
\* integer fails with the port-not-found error.
C8_PortNotFound ==
    (extracted # Nil /\ ResolvedRef.Type = "String" /\ NoneNamed
       /\ Atoi(ResolvedRef.StrVal).err # NoErr) =>
        /\ Deref(extracted).err.kind = "PortNotFound"
        /\ Deref(extracted).err.str = ResolvedRef.StrVal

NetworkVariant == p.Exec = Nil /\ Populated(p) # {}
MissingTarget == pod = Nil \/ container.Name \notin Deref(pod).Containers

\* C9: without a pod, or with a container the pod does not hold, port
\* resolution fails before any probing, whatever the port reference: the port
\* returned is -1, the error says "invalid pod" or "container not found", and
\* the result is Unknown.
C9_MissingTarget ==
    (entry = "RunProbe" /\ pc # "idle" /\ NetworkVariant /\ MissingTarget) =>
        /\ pc = "done"
        /\ calls = <<>>
        /\ result = Unknown
        /\ extracted # Nil /\ Deref(extracted).port = -1
        /\ err.kind = (IF pod = Nil THEN "InvalidPod" ELSE "ContainerNotFound")

\* C10: with no variant populated RunProbe calls no prober and returns Unknown,
\* an empty text and the missing-handler error naming the pod and the container.
C10_MissingHandler ==
    (entry = "RunProbe" /\ pc # "idle" /\ Populated(p) = {}) =>
        /\ pc = "done"
        /\ calls = <<>>
        /\ result = Unknown /\ output = <<>>
        /\ err.kind = "MissingHandler"
        /\ err.str = <<"missing probe handler for ",
                       Deref(pod).Name, "_", Deref(pod).Namespace, "(", Deref(pod).UID, ")",
                       ":", container.Name>>

\* C11: RunProbe never crashes: whatever the handler (none of its variants
\* populated included) and whatever the pod (nil included), the call ends by
\* returning a result, a text and an error.
C11_NoCrash ==
    entry = "RunProbe" =>
        /\ pc # "panic"
        /\ pc = "done" => result \in {Unknown, Success, Failure, Warning}

\* C13: when client.Do returns an error (no connection, a timeout, a redirect
\* the policy refuses) the HTTP probe returns Failure, the text of that error
\* and a nil error.
C13_DoErrorIsFailure ==
    (pc = "done" /\ doErr # NoErr) =>
        /\ result = Failure
        /\ output = doErr.str
        /\ err = NoErr

\* a request that got no response ended the probe with Failure
C13_Witness ==
    /\ pc = "done"
    /\ doErr \in TransportErrors /\ res = Nil
    /\ result = Failure /\ err = NoErr /\ output = <<"connection refused">>

\* the host field of the variant RunProbe selected
SelectedHost ==
    CASE selected(p) = "httpGet" -> Deref(p.HTTPGet).Host
      [] selected(p) = "httpPost" -> Deref(p.HTTPPost).Host
      [] selected(p) = "tcp" -> Deref(p.TCPSocket).Host

\* C20: the three network variants default the host alike: the prober is
\* called with the host field of the handler when that field is not empty, and
\* with the pod IP of the status given to RunProbe when it is empty.
C20_HostDefaulting ==
    (entry = "RunProbe" /\ selected(p) \in {"httpGet", "httpPost", "tcp"}) =>
        \A i \in DOMAIN calls :
            /\ SelectedHost # "" => calls[i].host = SelectedHost
            /\ SelectedHost = "" => calls[i].host = status.PodIP
            /\ via # <<>> => via[1].URL.Hostname = calls[i].host

\* a tcpSocket probe with an explicit host dialled that host, not the pod IP
C20_Witness ==
    /\ entry = "RunProbe" /\ pc = "done"
    /\ selected(p) = "tcp" /\ SelectedHost = "h.example"
    /\ Len(calls) = 1 /\ calls[1].host = "h.example" /\ calls[1].host # status.PodIP

\* the body of the response that was classified
BodyOf(r) == Deref(r).Body

\* C12: the body an HTTP probe returns is bounded by maxRespBodyLength: a body
\* of at most that length is returned whole, a longer one as exactly its first
\* maxRespBodyLength bytes, with a nil error, and the status code still
\* decides the result (a 2xx with an oversize body is Success).
C12_BodyBounded ==
    (Classified /\ ~ReadFailed) =>
        /\ err = NoErr
        /\ result = ResultOfStatus(StatusOf(res))
        /\ result \in {Success, Warning} =>
              /\ Len(output) <= maxRespBodyLength
              /\ Len(BodyOf(res)) <= maxRespBodyLength => output = BodyOf(res)
              /\ Len(BodyOf(res)) > maxRespBodyLength =>
                    /\ Len(output) = maxRespBodyLength
                    /\ \A i \in 1..maxRespBodyLength : output[i] = BodyOf(res)[i]
                    /\ readErr = ErrLimitReached

\* a 200 whose body is one byte over the budget gave Success and the budget's
\* worth of bytes
C12_Witness ==
    /\ Classified
    /\ StatusOf(res) = 200 /\ Len(BodyOf(res)) = maxRespBodyLength + 1
    /\ result = Success /\ err = NoErr
    /\ Len(output) = maxRespBodyLength

C15_TimeoutPassedThrough ==
    entry = "RunProbe" =>
        /\ \A i \in DOMAIN calls :
              IF calls[i].prober = "exec"
              THEN calls[i].timeout = Nil
              ELSE calls[i].timeout = Ptr(timeout)
        /\ client # Nil => Deref(client).Timeout = timeout

\* a tcpSocket probe was made with the two seconds given to RunProbe
C15_Witness ==
    /\ entry = "RunProbe" /\ pc = "done" /\ timeout = 2
    /\ Len(calls) = 1 /\ calls[1].prober = "tcp" /\ calls[1].timeout = Ptr(2)

\* C15 as written: whichever of the four variants is selected, its prober
\* receives the timeout given to RunProbe.
C15_Original ==
    entry = "RunProbe" => \A i \in DOMAIN calls : calls[i].timeout = Ptr(timeout)

\* the request doHTTPProbe handed to client.Do: the first of the chain
FirstRequest == IF via = <<>> THEN Deref(req) ELSE via[1]
\* the HTTP action RunProbe selected
SelectedAction == IF selected(p) = "httpGet" THEN Deref(p.HTTPGet) ELSE Deref(p.HTTPPost)
\* the headers the caller supplied, as the header map they make
Supplied ==
    IF entry = "RunProbe"
    THEN Ptr([k \in {"X-Probe", "user-agent"} |->
                 IF k = "X-Probe" THEN <<"1", "2">> ELSE <<"probe/1.0">>])
    ELSE args.headers
SuppliedNames == IF Supplied = Nil THEN {} ELSE DOMAIN Deref(Supplied)
SuppliedForm == IF entry = "RunProbe" THEN SelectedAction.Form ELSE args.form
SuppliedBody == IF entry = "RunProbe" THEN SelectedAction.Body ELSE args.body

C17_HostOverride ==
    req # Nil =>
        LET r == FirstRequest
        IN  /\ ("Host" \in SuppliedNames /\ Deref(Supplied)["Host"][1] # "") =>
                  r.Host = <<Deref(Supplied)["Host"][1]>>
            /\ "Host" \notin SuppliedNames =>
                  r.Host = <<r.URL.Hostname, ":">> \o Itoa(r.URL.Port)
            /\ r.URL.Hostname = calls[1].host /\ r.URL.Port = calls[1].port
            /\ entry # "RunProbe" => r.URL = DirectURL

\* the Host header named another host than the URL and became the request's host
C17_Witness ==
    /\ req # Nil /\ pc = "done"
    /\ FirstRequest.Host = <<"muffins.cupcakes.org">>
    /\ FirstRequest.URL.Hostname = "127.0.0.1"
    /\ calls[1].host = "127.0.0.1"

\* C18: the POST request handed to the client carries the Content-Type of its
\* body: application/x-www-form-urlencoded when a form is supplied,
\* application/json when only a raw body is, whatever headers the caller
\* supplied (none at all included).
C18_ContentType ==
    (req # Nil /\ FirstRequest.Method = "POST") =>
        LET sent == Deref(FirstRequest.Header)
        IN  /\ SuppliedForm # Nil =>
                  /\ "Content-Type" \in DOMAIN sent
                  /\ sent["Content-Type"] = <<"application/x-www-form-urlencoded">>
            /\ (SuppliedForm = Nil /\ SuppliedBody # <<>>) =>
                  /\ "Content-Type" \in DOMAIN sent
                  /\ sent["Content-Type"] = <<"application/json">>

\* C19: the body of a POST request is the URL-encoding of the form whenever a
\* form is supplied (a raw body supplied with it is not sent), the raw body
\* when no form is supplied and the raw body is not empty, and empty when
\* neither is supplied; a GET request has no body.
C19_BodySelection ==
    req # Nil =>
        LET r == FirstRequest
        IN  /\ r.Method = (IF entry = "HttpGet.Probe" \/ (entry = "RunProbe" /\ selected(p) = "httpGet")
                           THEN "GET" ELSE "POST")
            /\ r.Method = "GET" => r.Body = <<>>
            /\ r.Method = "POST" =>
                  /\ SuppliedForm = Ptr(TheForm) =>
                        r.Body = <<"age", "=", "who+cares", "&", "name", "=", "form-test">>
                  /\ SuppliedForm = Ptr(<<>>) => r.Body = <<>>
                  /\ (SuppliedForm = Nil /\ SuppliedBody # <<>>) => r.Body = SuppliedBody
                  /\ (SuppliedForm = Nil /\ SuppliedBody = <<>>) => r.Body = <<>>

\* a form and a raw body were both supplied and the form was sent
C19_Witness ==
    /\ req # Nil /\ pc = "done"
    /\ FirstRequest.Method = "POST"
    /\ SuppliedForm = Ptr(TheForm) /\ SuppliedBody = <<"{}">>
    /\ FirstRequest.Body = <<"age", "=", "who+cares", "&", "name", "=", "form-test">>

\* the call under way is RunProbe on a handler whose selected variant is tcpSocket
TCPSelected == entry = "RunProbe" /\ selected(p) = "tcp"

\* C21: a TCP dial that connects gives Success; a dial error (refused, timed
\* out, unreachable) gives Failure with the text of the dial error as output
\* and a nil error; through RunProbe a tcpSocket probe returns Unknown only
\* when the port could not be resolved, and then nothing was dialed.
C21_TCPOutcome ==
    (TCPSelected /\ pc = "done") =>
        /\ extracted # Nil
        /\ Deref(extracted).err # NoErr =>
              /\ result = Unknown /\ err = Deref(extracted).err
              /\ dialed = Nil /\ calls = <<>>
        /\ Deref(extracted).err = NoErr =>
              /\ dialed # Nil /\ Len(calls) = 1 /\ calls[1].prober = "tcp"
              /\ err = NoErr
              /\ Deref(dialed) = NoErr => (result = Success /\ output = <<>>)
              /\ Deref(dialed) # NoErr =>
                    (result = Failure /\ output = Deref(dialed).str)

\* a dial that timed out was reported as a Failure carrying the dial error
C21_Witness ==
    /\ TCPSelected /\ pc = "done"
    /\ dialed # Nil /\ Deref(dialed) # NoErr
    /\ Deref(dialed).str = <<"dial tcp ", "i/o timeout">>
    /\ result = Failure /\ output = <<"dial tcp ", "i/o timeout">> /\ err = NoErr

\* a path as the HTTP handlers mean it: nothing or an absolute path (one
\* leading slash), then nothing or "?" and a query; no fragment, no space and
\* no "%" that starts no escape
ValidPath(path) ==
    LET before == split(path, "?", TRUE)[1]
    IN  /\ \A i \in DOMAIN path : path[i] \notin {"#", " ", "%"}
        /\ before # <<>> => (before[1] = "/" /\ ~HasPrefix(before, <<"/", "/">>))

\* C22: the URL formatURL builds has the supplied scheme and the supplied host
\* and port whatever the path holds; for a valid path it renders as
\* scheme://host:port followed by the path as given, query included; a path
\* that does not parse never makes it fail: the URL then has that path as its
\* Path.
C22_URLRendering ==
    (entry = "formatURL" /\ pc = "done") =>
        /\ built # Nil
        /\ LET u      == Deref(built)
               t      == args.target
               prefix == <<t.scheme, ":", "/", "/">> \o JoinHostPort(t.host, t.port)
           IN  /\ u.Scheme = t.scheme /\ u.Hostname = t.host /\ u.Port = t.port
               /\ ValidPath(args.path) => String(u) = prefix \o args.path
               /\ Parse(args.path).err # NoErr =>
                     /\ u.Path = args.path
                     /\ u.RawQuery = <<>> /\ u.Fragment = <<>> /\ u.Opaque = <<>>
                     /\ HasPrefix(String(u), prefix)

\* the path "/p?p" was rendered behind http://localhost:93 as it was given
C22_Witness ==
    /\ entry = "formatURL" /\ pc = "done" /\ built # Nil
    /\ args.target.scheme = "http"
    /\ args.path = <<"/", "p", "?", "p">>
    /\ String(Deref(built)) =
          <<"http", ":", "/", "/", "localhost", ":", "9", "3", "/", "p", "?", "p">>

\* a POST probe has returned after handing its request to the client
PostProbed ==
    /\ pc = "done" /\ via # <<>>
    /\ entry = "HttpPost.Probe" \/ (entry = "RunProbe" /\ selected(p) = "httpPost")

C24_ChainCap ==
    /\ Len(via) <= 10
    /\ doErr = ErrStopped =>
          /\ pc = "done" /\ Len(via) = 10
          /\ IsRedirect(res)
          /\ ~followNonLocalRedirects => SameHost(res)
          /\ result = Failure /\ output = <<"stopped after 10 redirects">>
    /\ (pc = "done" /\ Len(via) = 10 /\ IsRedirect(res)
          /\ (followNonLocalRedirects \/ SameHost(res))) => doErr = ErrStopped

\* a chain of same-host redirects ended in the cap error under the same-host policy
C24_Witness ==
    /\ ~followNonLocalRedirects /\ pc = "done"
    /\ doErr = ErrStopped /\ Len(via) = 10
    /\ IsRedirect(res) /\ SameHost(res)
    /\ result = Failure

\* C24 as written: with followNonLocalRedirects = false no chain ends in the
\* cap error.
C24_Original ==
    ~followNonLocalRedirects => doErr # ErrStopped

\* C25: there is no retry. In one call the selected prober is called at most
\* once and the request is handed to the client (Do) at most once, from the
\* start of the call; a request after the first is sent only to follow the
\* redirect just received, never after a result; and once the call has
\* returned, whatever the result, nothing more is done.
C25_NoRetry ==
    [][ /\ Len(calls') <= 1
        /\ pc \notin {"done", "panic"}
        /\ (pc' = "do" /\ pc # "do") => (pc = "idle" /\ calls = <<>> /\ via = <<>>)
        /\ (via' # via /\ via # <<>>) =>
              /\ result = "none"
              /\ IsRedirect(res)
              /\ via'[Len(via')].URL = Deref(Deref(res).Location)
      ]_vars

\* a probe whose one request failed returned Failure after that one request
C25_Witness ==
    /\ pc = "done" /\ result = Failure
    /\ Len(calls) = 1 /\ Len(via) = 1
    /\ doErr \in TransportErrors

\* C27: for httpGet, httpPost and tcpSocket RunProbe returns Unknown exactly
\* when the port does not resolve, and then with an empty text and the error
\* of the resolution, no URL built, no request sent and nothing dialed; when
\* the port resolves the prober of the variant is called and the result is
\* Success, Failure or Warning, Warning only for an HTTP response with a 3xx
\* status that was not followed.
C27_UnknownIffUnresolved ==
    (entry = "RunProbe" /\ NetworkVariant /\ pc # "idle") =>
        /\ extracted # Nil
        /\ pc \in {"do", "done"}
        /\ Deref(extracted).err # NoErr =>
              /\ pc = "done"
              /\ result = Unknown /\ output = <<>> /\ err = Deref(extracted).err
              /\ calls = <<>> /\ client = Nil /\ req = Nil /\ via = <<>> /\ dialed = Nil
        /\ Deref(extracted).err = NoErr =>
              /\ Len(calls) = 1 /\ calls[1].prober = selected(p)
              /\ calls[1].port = Deref(extracted).port
              /\ pc = "done" =>
                    /\ result \in {Success, Failure, Warning}
                    /\ result = Warning =>
                          /\ selected(p) \in {"httpGet", "httpPost"}
                          /\ res # Nil /\ doErr = NoErr
                          /\ 300 <= StatusOf(res) /\ StatusOf(res) < 400

\* an httpPost probe whose port did not resolve returned Unknown and the
\* resolution error, and called nothing
C27_Witness ==
    /\ entry = "RunProbe" /\ pc = "done" /\ selected(p) = "httpPost"
    /\ extracted # Nil /\ Deref(extracted).err # NoErr
    /\ result = Unknown /\ err = Deref(extracted).err
    /\ calls = <<>> /\ via = <<>>

\* C28: under the same-host policy the hostname is compared before the length
\* of the chain is looked at: a redirect to another hostname ends the chain
\* with the 3xx response itself (Warning when its body is read) even when it
\* arrives on the tenth request, the error "stopped after 10 redirects"
\* (Failure) comes only from a redirect to the same hostname arriving when the
\* chain holds 10 requests, and no probe sends more than 10 requests.
C28_LocalityBeforeCap ==
    ~followNonLocalRedirects =>
        /\ Len(via) <= 10
        /\ (pc = "done" /\ IsRedirect(res) /\ ~SameHost(res)) =>
              /\ doErr = NoErr
              /\ ~ReadFailed =>
                    (result = Warning /\ err = NoErr)
        /\ doErr = ErrStopped =>
              /\ IsRedirect(res) /\ SameHost(res)
              /\ Len(via) = 10
              /\ result = Failure

\* the tenth request of a same-host chain was answered by a redirect to
\* another host, and the probe returned Warning
C28_Witness ==
    /\ ~followNonLocalRedirects /\ pc = "done"
    /\ Len(via) = 10
    /\ IsRedirect(res) /\ ~SameHost(res)
    /\ doErr = NoErr /\ ~ReadFailed
    /\ result = Warning

\* the hostname of the URL a response redirects to
LocationHostname(r) == Deref(Deref(r).Location).Hostname

\* C29: under the same-host policy a redirect is followed exactly when the
\* hostname of its target URL is the hostname of the URL of the first request
\* of the chain (and the chain holds fewer than 10 requests): a target on
\* another port or under another scheme of that hostname is followed, and a
\* Host header the caller supplied plays no part; the request that follows
\* goes to the target as given, port and scheme included.
C29_HostnameLocality ==
    [][ (~followNonLocalRedirects /\ pc = "do" /\ via' # via /\ IsRedirect(res')) =>
            /\ (pc' = "do") <=>
                  (LocationHostname(res') = via'[1].URL.Hostname /\ Len(via') < 10)
            /\ pc' = "do" => Deref(req').URL = Deref(Deref(res').Location)
      ]_vars

\* a probe sent with a Host header naming another host followed a redirect to
\* another port of the hostname of its URL
C29_Witness ==
    /\ ~followNonLocalRedirects /\ pc = "done"
    /\ Len(via) >= 2
    /\ via[1].Host = <<"muffins.cupcakes.org">>
    /\ via[2].URL.Hostname = via[1].URL.Hostname
    /\ via[2].URL.Port # via[1].URL.Port
    /\ result = Success

OwnAction == IF selected(p) = "httpGet" THEN Deref(p.HTTPGet) ELSE Deref(p.HTTPPost)
OwnURL ==
    formatURL(ToLower(OwnAction.Scheme), resolveHost(OwnAction.Host, status),
              extractPort(OwnAction.Port, container).port, OwnAction.Path)
OwnRequest ==
    IF selected(p) = "httpGet"
    THEN DoHTTPGetProbe(OwnURL, buildHeader(OwnAction.HTTPHeaders))
    ELSE DoHTTPPostProbe(OwnURL, buildHeader(OwnAction.HTTPHeaders),
                         OwnAction.Form, OwnAction.Body)

\* what the running call holds and has returned is what a call with its
\* arguments holds and returns on the answers this call was given: the client
\* carries its timeout, the request is built from its handler, a timeout
\* struck only once its own time was up, a redirect was followed or kept
\* by the policy of the prober, and the outcome is that of the response, the
\* error and the body this call received
OwnOutcome ==
    /\ client # Nil => Deref(client) = [Timeout |-> timeout,
                                        CheckRedirect |-> followNonLocalRedirects]
    /\ \A i \in DOMAIN calls :
          calls[i].prober = selected(p) /\ calls[i].timeout \in {Nil, Ptr(timeout)}
    /\ extracted # Nil => \E a \in {p.HTTPGet, p.HTTPPost, p.TCPSocket} :
                              a # Nil /\ Deref(extracted) = extractPort(Deref(a).Port, container)
    /\ via # <<>> => via[1] = OwnRequest
    /\ doErr = ErrTimeout => timeout > 0 /\ clock >= timeout
    /\ (pc = "done" /\ res # Nil) => ~(timeout > 0 /\ clock >= timeout)
    /\ (pc = "done" /\ res # Nil /\ Deref(res).Location # Nil) =>
          LET next == [Method |-> redirectMethod(via[Len(via)].Method, Deref(res).StatusCode),
                       URL |-> Deref(Deref(res).Location)]
          IN  /\ redirectChecker(followNonLocalRedirects, next, via) # NoErr
              /\ doErr \in {NoErr, redirectChecker(followNonLocalRedirects, next, via)}
    /\ (pc = "done" /\ via # <<>>) =>
          \E read \in (IF doErr = NoErr THEN BodyReads(Deref(res).Body)
                       ELSE {[data |-> <<>>, err |-> NoErr]}) :
             /\ readErr = read.err
             /\ [result |-> result, output |-> output, err |-> err]
                  = doHTTPProbe(IF res = Nil THEN Nil ELSE Deref(res), doErr, read)
    /\ (pc = "done" /\ dialed # Nil) =>
          [result |-> result, output |-> output, err |-> err] = tcpProbe(Deref(dialed))

\* C26: two calls of RunProbe on one prober do not interfere. Under every
\* interleaving of their steps the prober still holds what NewProber gave it
\* (followNonLocalRedirects is false: no call has written it), and the call
\* taking a step holds a client, a request and an outcome of its own: those
\* its own arguments and the answers of its own endpoint give, whatever the
\* other call has done.
C26_NonInterference ==
    /\ followNonLocalRedirects = FALSE
    /\ other # Nil
    /\ OwnOutcome

\* the call with a timeout of two seconds got its answer after one second,
\* while the call with a timeout of one second, begun before it on the same
\* prober, ran into its timeout
C26_Witness ==
    /\ other # Nil
    /\ pc = "done" /\ timeout = 2 /\ clock = 1 /\ via # <<>> /\ result = Success
    /\ Deref(other).pc = "done" /\ Deref(other).timeout = 1
    /\ Deref(other).doErr = ErrTimeout

====
